---- MODULE Spec2Model ----
(***************************************************************************)
(* Request handlers of src/index.js over the Users and Posts collections.  *)
(*                                                                         *)
(* Every handler is an async function: it runs without interruption up to  *)
(* each `await` on the document store, and other requests may run at that  *)
(* point.  One action below is one such uninterrupted piece: the store     *)
(* operation the handler was suspended on, followed by the synchronous     *)
(* code up to the next store operation (or up to the response).            *)
(*                                                                         *)
(* Documents are Mongoose documents.  `doc.save()` of a document that was  *)
(* read with findById sends only the changes made to the in-memory copy:   *)
(*   - array.push(x)      is sent as  $push  of x, and increments __v;     *)
(*   - array = newArray   is sent as  $set   of the whole array, guarded   *)
(*                        by the __v that was read, and increments __v;    *)
(*   - an update that matches no document makes save() throw, which the    *)
(*     handler's catch turns into a 500.                                   *)
(***************************************************************************)
EXTENDS Integers, Sequences, FiniteSets, TLC

\* ---------------------------------------------------------------- bounds
MaxRequests == 3      \* requests received in one behaviour
MaxUsers == 2         \* user documents that can be stored; user ids are 1..MaxUsers
MaxPosts == 1         \* posts that can be created; post ids are 1..MaxPosts

Handlers == {1, 2}    \* requests that can be in flight at the same time

Usernames == {"ann", "bob"}
Emails == {"a@x", "b@x"}
Passwords == {"pw1", "pw2"}
NoText == "<undefined>"           \* req.body.text absent
Texts == {NoText, "", "hi"}
NoId == 0                         \* req.body.userId absent
UserIds == 1..MaxUsers
PostIds == 1..MaxPosts

VARIABLES
    users,      \* Users collection: sequence of user documents, _id = position
    posts,      \* Posts collection: function from the _id of each stored post to its document
    postCount,  \* number of posts ever inserted (the next _id is postCount + 1)
    pc,         \* per handler: the await it is suspended on, "idle" or "done"
    args,       \* per handler: the request (route, params, body)
    local,      \* per handler: the handler's local variables across awaits
    resp,       \* per handler: the response sent (status, text, data)
    trace,      \* per handler: the store operations the request has performed
    received,   \* number of requests received so far
    lastDone    \* the request that completed last: a successful like toggle, or another

vars == <<users, posts, postCount, pc, args, local, resp, trace, received, lastDone>>

\* ------------------------------------------------------------- helpers
NoArgs == [route |-> "idle"]
NoLocal == [none |-> TRUE]
NoResp == [status |-> 0, text |-> "", data |-> <<>>]
OtherDone == [route |-> "other"]

ToSet(s) == {s[i] : i \in 1..Len(s)}

IsPrefix(s, t) == Len(s) <= Len(t) /\ \A i \in 1..Len(s) : s[i] = t[i]

Count(s, x) == Cardinality({i \in 1..Len(s) : s[i] = x})

Json(status, text, data) == [status |-> status, text |-> text, data |-> data]

\* bcrypt.hash(password, saltRounds) and bcrypt.compare(password, hash)
Hash(password) == <<"bcrypt", password>>

Compare(password, hash) == hash = Hash(password)

\* ------------------------------------------------------- document store
\* a plausible bug: the email is left out of the $or
ExistingUsername(us, username, email) ==
    LET hits == {i \in 1..Len(us) : us[i].username = username}
    IN  IF hits = {} THEN 0 ELSE CHOOSE i \in hits : \A j \in hits : i <= j

\* User.findOne({ $or: [{ email }, { username }] }): the _id of the first stored
\* user with that email or that username, 0 (null) when there is none
ExistingUser(us, username, email) ==
    LET hits == {i \in 1..Len(us) : us[i].email = email \/ us[i].username = username}
    IN  IF hits = {} THEN 0 ELSE CHOOSE i \in hits : \A j \in hits : i <= j

\* User.findOne({ username }): the _id of the first stored user with that username, or 0
FindByUsername(us, username) ==
    LET hits == {i \in 1..Len(us) : us[i].username = username}
    IN  IF hits = {} THEN 0 ELSE CHOOSE i \in hits : \A j \in hits : i <= j

\* new User({ username, email, password: hashedPassword, profilePhoto })
NewUser(us, username, email, hashedPassword) ==
    [_id |-> Len(us) + 1, username |-> username, email |-> email, password |-> hashedPassword]

\* The indexes of the User schema that reject a duplicate value on insert.
UniqueIndexes == {}

\* newUser.save(): whether the store accepts the insert
InsertAccepted(us, doc) ==
    \A f \in UniqueIndexes : \A i \in 1..Len(us) : us[i][f] # doc[f]

\* The Post schema: the array paths start empty, and documents carry the default
\* version key __v without the optimisticConcurrency option.
PostSchema == [likes |-> <<>>, comments |-> <<>>, optimisticConcurrency |-> FALSE]

\* new Post({ title, description, image, user: user_id })
NewPost(id, user_id) ==
    [_id |-> id, user |-> user_id, likes |-> PostSchema.likes,
     comments |-> PostSchema.comments, __v |-> 0]

\* post.likes.includes(userId)
Includes(likes, userId) == \E i \in 1..Len(likes) : likes[i] = userId

\* post.likes.filter((id) => id.toString() !== userId.toString())
Without(likes, userId) == SelectSeq(likes, LAMBDA id : id # userId)

NoVersion == -1

\* a plausible bug: the push is sent guarded by the version that was read
PushDeltaGuarded(doc, path, x) ==
    [op |-> "$push", path |-> path, value |-> <<x>>, where |-> doc.__v]

\* array.push(x) as save() sends it: $push, no version guard
PushDelta(doc, path, x) ==
    [op |-> "$push", path |-> path, value |-> <<x>>,
     where |-> IF PostSchema.optimisticConcurrency THEN doc.__v ELSE NoVersion]

\* array = value as save() sends it: $set of the array, guarded by the __v read
SetDelta(doc, path, value) ==
    [op |-> "$set", path |-> path, value |-> value, where |-> doc.__v]

\* the in-memory document after the change, before save()
Changed(doc, delta) ==
    IF delta.op = "$push"
    THEN [doc EXCEPT ![delta.path] = @ \o delta.value]
    ELSE [doc EXCEPT ![delta.path] = delta.value]

\* whether the update save() sends matches a stored document
Matches(ps, id, delta) ==
    /\ id \in DOMAIN ps
    /\ delta.where = NoVersion \/ ps[id].__v = delta.where

\* a plausible bug: save() writes the whole in-memory document back
SavedWhole(stored, doc, delta) ==
    [doc EXCEPT !.__v = stored.__v + 1]

\* the stored document after doc.save(): only the change made to doc is applied
Saved(stored, doc, delta) ==
    [Changed(stored, delta) EXCEPT !.__v = @ + 1]

\* a plausible bug: the already-liked branch is missing
ToggleAlwaysPush(post, userId) == PushDelta(post, "likes", userId)

\* lines 372-380: the toggle on the in-memory post, as the change save() will send
Toggle(post, userId) ==
    IF Includes(post.likes, userId)
    THEN SetDelta(post, "likes", Without(post.likes, userId))
    ELSE PushDelta(post, "likes", userId)

\* a plausible bug: && in place of ||
CommentInvalidBoth(userId, text) == userId = NoId /\ text \in {NoText, ""}

\* if (!userId || !text)
CommentInvalid(userId, text) == userId = NoId \/ text \in {NoText, ""}

\* post.populate({ path: "comments.user", select: "username profilePhoto" }) on one comment
Populate(us, comment) ==
    IF comment.user \in 1..Len(us)
    THEN [comment EXCEPT !.user = <<[_id |-> comment.user, username |-> us[comment.user].username]>>]
    ELSE [comment EXCEPT !.user = <<>>]

\* ------------------------------------------------------------ responses
Conflict == Json(409, "Username or email already exists", <<>>)

Registered(user) == Json(201, "User registered successfully", <<user>>)

LoginNoUser == Json(401, "Invalid username or password", <<>>)

\* a plausible bug: the two failures are told apart
LoginWrongPassword == Json(401, "Wrong password", <<>>)

LoginBadPassword == Json(401, "Invalid username or password", <<>>)

LoggedIn(user) == Json(200, "Login successful", <<user>>)

PostCreated(post) == Json(201, "Post created successfully", <<post>>)

\* if (result.deletedCount === 0) 404 else 200
DeleteResponse(deletedCount) ==
    IF deletedCount = 0
    THEN Json(404, "Post not found", <<>>)
    ELSE Json(200, "Post deleted successfully", <<>>)

LikePostNotFound == Json(404, "Post not found.", <<>>)

Liked(post) == Json(200, "", <<post>>)

CommentBadRequest == Json(400, "User ID and comment text are required", <<>>)

CommentPostNotFound == Json(404, "Post does not exist", <<>>)

CommentUserNotFound == Json(404, "User not found", <<>>)

\* lines 425-439: the response built from the last comment of the in-memory post
CommentAdded(post) == Json(201, "Comment added successfully", <<post.comments[Len(post.comments)]>>)

\* catch (err): res.status(500)
RegisterError == Json(500, "Internal Server Error", <<>>)

LikeError == Json(500, "", <<>>)

CommentError == Json(500, "Internal server error", <<>>)

\* ---------------------------------------------------------------- state
TypeOK ==
    /\ Len(users) <= MaxUsers
    /\ DOMAIN posts \subseteq 1..postCount
    /\ postCount \in 0..MaxPosts
    /\ received \in 0..MaxRequests
    /\ \A h \in Handlers : pc[h] \in {"idle", "register_save", "like_save",
                                       "comment_findUser", "comment_save",
                                       "comment_populate", "done"}

Init ==
    /\ users = <<>>
    /\ posts = <<>>
    /\ postCount = 0
    /\ pc = [h \in Handlers |-> "idle"]
    /\ args = [h \in Handlers |-> NoArgs]
    /\ local = [h \in Handlers |-> NoLocal]
    /\ resp = [h \in Handlers |-> NoResp]
    /\ trace = [h \in Handlers |-> <<>>]
    /\ received = 0
    /\ lastDone = OtherDone

\* a request is received by an idle handler
Receive(h, request) ==
    /\ pc[h] = "idle"
    /\ received < MaxRequests
    /\ received' = received + 1
    /\ args' = [args EXCEPT ![h] = request]

\* the handler performs the store operations `ops` and suspends on the next one
Await(h, label, ops, vals) ==
    /\ pc' = [pc EXCEPT ![h] = label]
    /\ trace' = [trace EXCEPT ![h] = @ \o ops]
    /\ local' = [local EXCEPT ![h] = vals]
    /\ resp' = resp

\* the handler performs the store operations `ops` and sends its response
Respond(h, ops, response, vals) ==
    /\ pc' = [pc EXCEPT ![h] = "done"]
    /\ trace' = [trace EXCEPT ![h] = @ \o ops]
    /\ local' = [local EXCEPT ![h] = vals]
    /\ resp' = [resp EXCEPT ![h] = response]

\* ------------------------------------------------------------- handlers
\* POST /register, up to the await of newUser.save()
Register(h, username, email, password) ==
    /\ Receive(h, [route |-> "register", username |-> username, email |-> email,
                   password |-> password])
    /\ LET existingUser == ExistingUser(users, username, email) IN
       IF existingUser # 0
       THEN /\ Respond(h, <<"User.findOne">>, Conflict, NoLocal)
            /\ lastDone' = OtherDone
       ELSE /\ Len(users) + Cardinality({g \in Handlers : pc[g] = "register_save"}) < MaxUsers
            /\ Await(h, "register_save", <<"User.findOne">>,
                     [hashedPassword |-> Hash(password)])
            /\ lastDone' = lastDone
    /\ UNCHANGED <<users, posts, postCount>>

\* a plausible bug-free variant: the insert checks for an existing user again
RegisterSaveChecked(h) ==
    /\ pc[h] = "register_save"
    /\ LET newUser == NewUser(users, args[h].username, args[h].email, local[h].hashedPassword) IN
       IF ExistingUser(users, args[h].username, args[h].email) = 0
       THEN /\ users' = Append(users, newUser)
            /\ Respond(h, <<"User.save">>, Registered(newUser), NoLocal)
       ELSE /\ users' = users
            /\ Respond(h, <<"User.save">>, Conflict, NoLocal)
    /\ lastDone' = OtherDone
    /\ UNCHANGED <<posts, postCount, args, received>>

\* POST /register, newUser.save() and the response
RegisterSave(h) ==
    /\ pc[h] = "register_save"
    /\ LET newUser == NewUser(users, args[h].username, args[h].email, local[h].hashedPassword) IN
       IF InsertAccepted(users, newUser)
       THEN /\ users' = Append(users, newUser)
            /\ Respond(h, <<"User.save">>, Registered(newUser), NoLocal)
       ELSE /\ users' = users
            /\ Respond(h, <<"User.save">>, RegisterError, NoLocal)
    /\ lastDone' = OtherDone
    /\ UNCHANGED <<posts, postCount, args, received>>

\* POST /login
Login(h, username, password) ==
    /\ Receive(h, [route |-> "login", username |-> username, password |-> password])
    /\ LET user == FindByUsername(users, username) IN
       IF user = 0
       THEN Respond(h, <<"User.findOne">>, LoginNoUser, [user |-> 0])
       ELSE IF ~Compare(password, users[user].password)
            THEN Respond(h, <<"User.findOne">>, LoginBadPassword, [user |-> user])
            ELSE Respond(h, <<"User.findOne">>, LoggedIn(users[user]), [user |-> user])
    /\ lastDone' = OtherDone
    /\ UNCHANGED <<users, posts, postCount>>

\* POST /CreatePost
CreatePost(h, user_id) ==
    /\ Receive(h, [route |-> "CreatePost", user_id |-> user_id])
    /\ postCount < MaxPosts
    /\ LET newPost == NewPost(postCount + 1, user_id) IN
       /\ posts' = posts @@ (postCount + 1 :> newPost)
       /\ postCount' = postCount + 1
       /\ Respond(h, <<"Post.save">>, PostCreated(newPost), NoLocal)
    /\ lastDone' = OtherDone
    /\ UNCHANGED users

\* Post.deleteOne({ _id: id }): the collection afterwards
DeleteOne(ps, id) == [i \in DOMAIN ps \ {id} |-> ps[i]]

\* a plausible bug: the result of deleteOne is not looked at
DeletedCountIgnored(ps, id) == 1

\* result.deletedCount
DeletedCount(ps, id) == IF id \in DOMAIN ps THEN 1 ELSE 0

\* DELETE /deletePost/:id
DeletePost(h, id) ==
    /\ Receive(h, [route |-> "deletePost", id |-> id])
    /\ posts' = DeleteOne(posts, id)
    /\ Respond(h, <<"Post.deleteOne">>, DeleteResponse(DeletedCount(posts, id)), NoLocal)
    /\ lastDone' = OtherDone
    /\ UNCHANGED <<users, postCount>>

\* POST /posts/:id/like, up to the await of post.save()
Like(h, postId, userId) ==
    /\ Receive(h, [route |-> "like", postId |-> postId, userId |-> userId])
    /\ IF postId \notin DOMAIN posts
       THEN /\ Respond(h, <<"Post.findById">>, LikePostNotFound, NoLocal)
            /\ lastDone' = OtherDone
       ELSE /\ LET post == posts[postId]
                   delta == Toggle(post, userId)
               IN  Await(h, "like_save", <<"Post.findById">>,
                         [post |-> Changed(post, delta), delta |-> delta])
            /\ lastDone' = lastDone
    /\ UNCHANGED <<users, posts, postCount>>

\* POST /posts/:id/like, post.save() and the response
LikeSave(h) ==
    /\ pc[h] = "like_save"
    /\ LET postId == args[h].postId
           delta == local[h].delta
       IN  IF Matches(posts, postId, delta)
           THEN /\ posts' = [posts EXCEPT ![postId] = Saved(@, local[h].post, delta)]
                /\ Respond(h, <<"Post.save">>,
                           Liked([local[h].post EXCEPT !.__v = @ + 1]), NoLocal)
                /\ lastDone' = [route |-> "like", postId |-> postId,
                                userId |-> args[h].userId,
                                before |-> ToSet(posts[postId].likes)]
           ELSE /\ posts' = posts
                /\ Respond(h, <<"Post.save">>, LikeError, NoLocal)
                /\ lastDone' = OtherDone
    /\ UNCHANGED <<users, postCount, args, received>>

\* a plausible bug: the user is looked up before the post
CommentUserFirst(h, postID, userId, text) ==
    /\ Receive(h, [route |-> "comment", postID |-> postID, userId |-> userId,
                   text |-> text, n |-> received + 1])
    /\ IF CommentInvalid(userId, text)
       THEN /\ Respond(h, <<>>, CommentBadRequest, NoLocal)
            /\ lastDone' = OtherDone
       ELSE IF userId \notin 1..Len(users)
       THEN /\ Respond(h, <<"User.findById">>, CommentUserNotFound, NoLocal)
            /\ lastDone' = OtherDone
       ELSE IF postID \notin DOMAIN posts
       THEN /\ Respond(h, <<"User.findById", "Post.findById">>, CommentPostNotFound, NoLocal)
            /\ lastDone' = OtherDone
       ELSE /\ Await(h, "comment_findUser", <<"User.findById", "Post.findById">>,
                     [post |-> posts[postID]])
            /\ lastDone' = lastDone
    /\ UNCHANGED <<users, posts, postCount>>

\* POST /comment/:id, up to the await of User.findById()
Comment(h, postID, userId, text) ==
    /\ Receive(h, [route |-> "comment", postID |-> postID, userId |-> userId,
                   text |-> text, n |-> received + 1])
    /\ IF CommentInvalid(userId, text)
       THEN /\ Respond(h, <<>>, CommentBadRequest, NoLocal)
            /\ lastDone' = OtherDone
       ELSE IF postID \notin DOMAIN posts
       THEN /\ Respond(h, <<"Post.findById">>, CommentPostNotFound, NoLocal)
            /\ lastDone' = OtherDone
       ELSE /\ Await(h, "comment_findUser", <<"Post.findById">>, [post |-> posts[postID]])
            /\ lastDone' = lastDone
    /\ UNCHANGED <<users, posts, postCount>>

\* const newComment = { user: userId, text: text }, with the _id the push gives it
NewComment(request) ==
    [_id |-> request.n, user |-> request.userId, text |-> request.text]

\* POST /comment/:id, User.findById() up to the await of post.save()
CommentFindUser(h) ==
    /\ pc[h] = "comment_findUser"
    /\ IF args[h].userId \notin 1..Len(users)
       THEN /\ Respond(h, <<"User.findById">>, CommentUserNotFound, NoLocal)
            /\ lastDone' = OtherDone
       ELSE /\ LET post == local[h].post
                   delta == PushDelta(post, "comments", NewComment(args[h]))
               IN  Await(h, "comment_save", <<"User.findById">>,
                         [post |-> Changed(post, delta), delta |-> delta])
            /\ lastDone' = lastDone
    /\ UNCHANGED <<users, posts, postCount, args, received>>

\* POST /comment/:id, post.save() up to the await of post.populate()
CommentSave(h) ==
    /\ pc[h] = "comment_save"
    /\ LET postID == args[h].postID
           delta == local[h].delta
       IN  IF Matches(posts, postID, delta)
           THEN /\ posts' = [posts EXCEPT ![postID] = Saved(@, local[h].post, delta)]
                /\ Await(h, "comment_populate", <<"Post.save">>,
                         [post |-> [local[h].post EXCEPT !.__v = @ + 1]])
                /\ lastDone' = lastDone
           ELSE /\ posts' = posts
                /\ Respond(h, <<"Post.save">>, CommentError, NoLocal)
                /\ lastDone' = OtherDone
    /\ UNCHANGED <<users, postCount, args, received>>

\* POST /comment/:id, post.populate() and the response
CommentPopulate(h) ==
    /\ pc[h] = "comment_populate"
    /\ LET post == [local[h].post EXCEPT
                       !.comments = [i \in 1..Len(@) |-> Populate(users, @[i])]]
           addedComment == post.comments[Len(post.comments)]
       IN  IF addedComment.user = <<>>
           THEN Respond(h, <<"User.find">>, CommentError, NoLocal)
           ELSE Respond(h, <<"User.find">>, CommentAdded(post), NoLocal)
    /\ lastDone' = OtherDone
    /\ UNCHANGED <<users, posts, postCount, args, received>>

\* the response has been sent; the handler is free for the next request
Finish(h) ==
    /\ pc[h] = "done"
    /\ pc' = [pc EXCEPT ![h] = "idle"]
    /\ args' = [args EXCEPT ![h] = NoArgs]
    /\ local' = [local EXCEPT ![h] = NoLocal]
    /\ resp' = [resp EXCEPT ![h] = NoResp]
    /\ trace' = [trace EXCEPT ![h] = <<>>]
    /\ UNCHANGED <<users, posts, postCount, received, lastDone>>

\* the requests on the Users collection
NextUsers ==
    \/ \E h \in Handlers, u \in Usernames, e \in Emails, p \in Passwords : Register(h, u, e, p)
    \/ \E h \in Handlers : RegisterSave(h)
    \/ \E h \in Handlers, u \in Usernames, p \in Passwords : Login(h, u, p)
    \/ \E h \in Handlers : Finish(h)

\* the requests on the Posts collection
NextPosts ==
    \/ \E h \in Handlers, u \in UserIds : CreatePost(h, u)
    \/ \E h \in Handlers, id \in PostIds : DeletePost(h, id)
    \/ \E h \in Handlers, id \in PostIds, u \in UserIds : Like(h, id, u)
    \/ \E h \in Handlers : LikeSave(h)
    \/ \E h \in Handlers, id \in PostIds, u \in {NoId} \cup UserIds, t \in Texts :
          Comment(h, id, u, t)
    \/ \E h \in Handlers : CommentFindUser(h)
    \/ \E h \in Handlers : CommentSave(h)
    \/ \E h \in Handlers : CommentPopulate(h)
    \/ \E h \in Handlers : Finish(h)

Next == NextUsers \/ NextPosts

\* the whole server, from empty collections
Spec == Init /\ [][Next]_vars

\* Requests served one at a time: a request is received only when no other is in flight.
NoneInFlight == \A h \in Handlers : pc[h] \in {"idle", "done"}

OneAtATime == received' # received => NoneInFlight

\* /register and /login, from an empty Users collection
SpecUsers == Init /\ [][NextUsers]_vars

SpecUsersSeq == Init /\ [][NextUsers /\ OneAtATime]_vars

\* The post routes, from a Users collection that registrations have filled:
\* the first n of the users below, for every n the bound allows.
Registered1 == NewUser(<<>>, "ann", "a@x", Hash("pw1"))

Registered2 == NewUser(<<Registered1>>, "bob", "b@x", Hash("pw2"))

RegisteredUsers == <<Registered1, Registered2>>

InitPosts ==
    /\ users \in {SubSeq(RegisteredUsers, 1, n) : n \in 0..2}
    /\ posts = <<>>
    /\ postCount = 0
    /\ pc = [h \in Handlers |-> "idle"]
    /\ args = [h \in Handlers |-> NoArgs]
    /\ local = [h \in Handlers |-> NoLocal]
    /\ resp = [h \in Handlers |-> NoResp]
    /\ trace = [h \in Handlers |-> <<>>]
    /\ received = 0
    /\ lastDone = OtherDone

SpecPosts == InitPosts /\ [][NextPosts]_vars

SpecPostsSeq == InitPosts /\ [][NextPosts /\ OneAtATime]_vars

\* --------------------------------------------------------------- claims
Route(h) == args[h].route

Answered(h, route) == pc[h] = "done" /\ Route(h) = route

\* handler h takes a step of its request
Steps(h) == pc'[h] # pc[h]

\* handler h receives a request for `route` in this step
Receives(h, route) == pc[h] = "idle" /\ Steps(h) /\ args'[h].route = route

\* C1: in every reachable state, whatever like-toggle requests have run and
\* however they interleaved, the likes of every post hold each user id at most once.
C1_LikesHoldEachUserOnce ==
    \A id \in DOMAIN posts : \A u \in UserIds : Count(posts[id].likes, u) <= 1

\* C2: a like toggle by u that runs to completion with no other request in between
\* answers 200 and changes the like set by exactly u: absent, the set grows by the one
\* element u; present, exactly u is removed; no other membership changes.  So a
\* second toggle by the same u on the same post, directly after the first, gives back
\* the like set the first one started from.
C2_ToggleFlipsExactlyU ==
    [][\A h \in Handlers :
         pc[h] = "like_save" /\ Steps(h) =>
           LET postId == args[h].postId
               u == args[h].userId
               before == ToSet(posts[postId].likes)
               after == ToSet(posts'[postId].likes)
           IN  /\ resp'[h].status = 200
               /\ DOMAIN posts' = DOMAIN posts
               /\ u \notin before => after = before \cup {u}
                                     /\ Cardinality(after) = Cardinality(before) + 1
               /\ u \in before => after = before \ {u}
                                  /\ Cardinality(after) = Cardinality(before) - 1
               /\ ToSet(resp'[h].data[1].likes) = after
               /\ (lastDone.route = "like" /\ lastDone.postId = postId
                   /\ lastDone.userId = u) => after = lastDone.before]_vars

\* C2 witness: two toggles by the same user on the same post have completed one after
\* the other; the second removed what the first had added.
C2_ToggledTwice ==
    \E h1, h2 \in Handlers :
        /\ h1 # h2
        /\ Answered(h1, "like") /\ Answered(h2, "like")
        /\ resp[h1].status = 200 /\ resp[h2].status = 200
        /\ args[h1].postId = args[h2].postId /\ args[h1].userId = args[h2].userId
        /\ lastDone.route = "like" /\ lastDone.postId = args[h1].postId
        /\ lastDone.userId = args[h1].userId
        /\ lastDone.userId \in lastDone.before
        /\ lastDone.postId \in DOMAIN posts
        /\ lastDone.userId \notin ToSet(posts[lastDone.postId].likes)

UniqueUsers ==
    \A i, j \in 1..Len(users) :
        i # j => users[i].username # users[j].username /\ users[i].email # users[j].email

\* C3: a register request whose username or email is that of a stored user is
\* answered 409 and inserts no user; so when register requests run one at a time, no
\* two stored users share a username and no two share an email.
C3_RegisterConflict ==
    /\ []UniqueUsers
    /\ [][\A h \in Handlers :
            (/\ Receives(h, "register")
             /\ \E i \in 1..Len(users) : \/ users[i].username = args'[h].username
                                        \/ users[i].email = args'[h].email)
            => /\ resp'[h].status = 409
               /\ pc'[h] = "done"
               /\ users' = users]_vars

\* C3 witness: a register request was refused for its email alone (its username is new).
C3_RefusedForEmail ==
    \E h \in Handlers :
        /\ Answered(h, "register")
        /\ resp[h].status = 409
        /\ \A i \in 1..Len(users) : users[i].username # args[h].username
        /\ \E i \in 1..Len(users) : users[i].email = args[h].email

\* the login of handler h found no user, or found one whose password does not match
LoginUnknown(h) == Answered(h, "login") /\ local[h].user = 0

LoginMismatch(h) ==
    /\ Answered(h, "login")
    /\ local[h].user # 0
    /\ ~Compare(args[h].password, users[local[h].user].password)

\* C4: a login with a username that does not exist and a login with an existing
\* username and a wrong password get the same response: status 401 and the same text.
C4_LoginFailuresAlike ==
    \A h1, h2 \in Handlers :
        LoginUnknown(h1) /\ LoginMismatch(h2) =>
            /\ resp[h1].status = 401
            /\ resp[h2].status = 401
            /\ resp[h1] = resp[h2]

\* C4 witness: both kinds of failed login have been answered.
C4_BothFailures ==
    \E h1, h2 \in Handlers : LoginUnknown(h1) /\ LoginMismatch(h2)

\* C5: a comment request without a userId, or without a text or with an empty one, is
\* answered 400 at once, before any store operation, and changes no post, whether or
\* not the post or the user exists.
C5_CommentBadRequest ==
    [][\A h \in Handlers :
         (/\ Receives(h, "comment")
          /\ args'[h].userId = NoId \/ args'[h].text = NoText \/ args'[h].text = "")
         => /\ resp'[h].status = 400
            /\ pc'[h] = "done"
            /\ trace'[h] = <<>>
            /\ posts' = posts]_vars

\* C5 witness: a comment with an empty text on an existing post by an existing user,
\* and a comment without userId, have both been refused.
C5_Refused ==
    \E h1, h2 \in Handlers :
        /\ Answered(h1, "comment") /\ resp[h1].status = 400
        /\ args[h1].postID \in DOMAIN posts
        /\ args[h1].userId \in 1..Len(users)
        /\ args[h1].text = ""
        /\ Answered(h2, "comment") /\ resp[h2].status = 400
        /\ args[h2].userId = NoId /\ args[h2].text = "hi"

CommentOps == <<"Post.findById", "User.findById", "Post.save", "User.find">>

\* C6: a comment request with userId and text looks up the post first and the user
\* second.  When the post does not exist it is answered 404 with no user lookup made;
\* when the post exists and the user does not it is answered 404; neither changes a post.
C6_PostThenUser ==
    [][\A h \in Handlers :
         /\ (Receives(h, "comment") /\ ~CommentInvalid(args'[h].userId, args'[h].text)
             /\ args'[h].postID \notin DOMAIN posts)
            => /\ resp'[h] = CommentPostNotFound
               /\ pc'[h] = "done"
               /\ trace'[h] = <<"Post.findById">>
               /\ posts' = posts
         /\ (pc[h] = "comment_findUser" /\ Steps(h) /\ args[h].userId \notin 1..Len(users))
            => /\ resp'[h] = CommentUserNotFound
               /\ pc'[h] = "done"
               /\ trace'[h] = <<"Post.findById", "User.findById">>
               /\ posts' = posts
         /\ args'[h].route = "comment" => IsPrefix(trace'[h], CommentOps)]_vars

\* C6 witness: one comment was refused for its post, another for its user.
C6_BothNotFound ==
    \E h1, h2 \in Handlers :
        /\ Answered(h1, "comment") /\ resp[h1] = CommentPostNotFound
        /\ Answered(h2, "comment") /\ resp[h2] = CommentUserNotFound

\* C7: deletePost on an id answers 200 and removes the post exactly when a post with
\* that id is stored at the moment of the deletion, and answers 404 and leaves Posts
\* unchanged otherwise; so of two deletePost requests for one id, in sequence or
\* racing, at most one is answered 200 and the other is answered 404; a deleted id
\* is never stored again.
C7_DeleteOnce ==
    /\ [](\A h1, h2 \in Handlers :
            (/\ h1 # h2
             /\ Answered(h1, "deletePost") /\ Answered(h2, "deletePost")
             /\ args[h1].id = args[h2].id)
            => /\ {resp[h1].status, resp[h2].status} \subseteq {200, 404}
               /\ ~(resp[h1].status = 200 /\ resp[h2].status = 200)
               /\ resp[h1].status = 200 => args[h1].id \notin DOMAIN posts)
    /\ [](DOMAIN posts \subseteq 1..postCount)
    /\ [][\A h \in Handlers :
            Receives(h, "deletePost") =>
              LET id == args'[h].id IN
              /\ pc'[h] = "done"
              /\ id \in DOMAIN posts =>
                   /\ resp'[h].status = 200
                   /\ DOMAIN posts' = DOMAIN posts \ {id}
                   /\ \A i \in DOMAIN posts' : posts'[i] = posts[i]
              /\ id \notin DOMAIN posts =>
                   /\ resp'[h].status = 404
                   /\ posts' = posts]_vars

\* C7 witness: two deletePost requests for the same id, one answered 200, one 404.
C7_DeletedTwice ==
    \E h1, h2 \in Handlers :
        /\ Answered(h1, "deletePost") /\ Answered(h2, "deletePost")
        /\ args[h1].id = args[h2].id
        /\ resp[h1].status = 200 /\ resp[h2].status = 404
        /\ args[h1].id \notin DOMAIN posts

\* C8: comments are append-only.  Over every step of every request, interleaved or
\* not, the comments of a post that continues to exist keep the previous sequence as a
\* prefix; the save of a comment request appends exactly that request's comment at the
\* end; and the 201 response carries that request's own comment (its user and text).
C8_CommentsAppendOnly ==
    [][/\ \A id \in DOMAIN posts \cap DOMAIN posts' :
            IsPrefix(posts[id].comments, posts'[id].comments)
       /\ \A h \in Handlers :
            /\ (pc[h] = "comment_save" /\ pc'[h] = "comment_populate")
               => posts'[args[h].postID].comments =
                     Append(posts[args[h].postID].comments,
                            [_id |-> args[h].n, user |-> args[h].userId,
                             text |-> args[h].text])
            /\ (pc[h] = "comment_populate" /\ Steps(h) /\ resp'[h].status = 201)
               => /\ Len(resp'[h].data) = 1
                  /\ resp'[h].data[1]._id = args[h].n
                  /\ resp'[h].data[1].text = args[h].text
                  /\ resp'[h].data[1].user[1]._id = args[h].userId
                  /\ resp'[h].data[1].user[1].username = users[args[h].userId].username
            /\ (pc[h] = "comment_populate" /\ Steps(h) /\ args[h].userId \in 1..Len(users))
               => resp'[h].status = 201]_vars

\* C8 witness: two comment requests raced on one post; both comments are stored, and a
\* request was answered with its own comment although the last stored one is the other's.
C8_RacedComments ==
    \E h \in Handlers :
        /\ Answered(h, "comment") /\ resp[h].status = 201
        /\ args[h].postID \in DOMAIN posts
        /\ LET comments == posts[args[h].postID].comments IN
           /\ Len(comments) = 2
           /\ comments[1]._id = args[h].n
           /\ comments[2]._id # args[h].n
           /\ resp[h].data[1]._id = args[h].n

\* C9: the like toggle is a read followed by a save that does not look at what is
\* stored: a toggle that read the user as absent adds the user and answers 200 as long
\* as the post still exists, whatever was saved since it read.  Two toggles that both
\* read before either saved can therefore both answer 200 while the stored likes show
\* one flip only (the witness).
C9_SaveIgnoresStaleRead ==
    [][\A h \in Handlers :
         (/\ pc[h] = "like_save" /\ Steps(h)
          /\ args[h].postId \in DOMAIN posts
          /\ local[h].delta.op = "$push")
         => /\ resp'[h].status = 200
            /\ posts'[args[h].postId].likes = Append(posts[args[h].postId].likes, args[h].userId)]_vars

\* C9 witness: two toggles by one user on one post both read the same version of the
\* post (so both read before either saved), both were answered 200, and the user is
\* still in the stored likes: of the two flips the store shows one.
C9_LostUpdate ==
    \E h1, h2 \in Handlers :
        /\ h1 # h2
        /\ Answered(h1, "like") /\ Answered(h2, "like")
        /\ resp[h1].status = 200 /\ resp[h2].status = 200
        /\ args[h1].postId = args[h2].postId /\ args[h1].userId = args[h2].userId
        /\ resp[h1].data[1].__v = resp[h2].data[1].__v
        /\ args[h1].postId \in DOMAIN posts
        /\ args[h1].userId \in ToSet(posts[args[h1].postId].likes)

\* C10: nothing but the existence check before the insert keeps usernames unique: a
\* register request that passed the check inserts its user and answers 201 whatever
\* is stored by then.  Two concurrent register requests with one username can
\* therefore both answer 201 and leave two users with that username (the witness).
C10_InsertUnchecked ==
    [][\A h \in Handlers :
         pc[h] = "register_save" /\ Steps(h) =>
            /\ resp'[h].status = 201
            /\ Len(users') = Len(users) + 1
            /\ users'[Len(users')].username = args[h].username
            /\ users'[Len(users')].email = args[h].email
            /\ SubSeq(users', 1, Len(users)) = users]_vars

\* C10 witness: two register requests with the same username were both answered 201
\* and two users with that username are stored.
C10_DuplicateUsername ==
    \E h1, h2 \in Handlers :
        /\ h1 # h2
        /\ Answered(h1, "register") /\ Answered(h2, "register")
        /\ resp[h1].status = 201 /\ resp[h2].status = 201
        /\ args[h1].username = args[h2].username
        /\ \E i, j \in 1..Len(users) :
              i # j /\ users[i].username = args[h1].username
                    /\ users[j].username = args[h1].username

====
